---- MODULE Spec2Model ----
(***************************************************************************)
(* Model of the dashboard data pipeline of src/unnamed/part_000:           *)
(* parseDateValue, getDataForDashboard, processAndSortData,                *)
(* processSpecialSatsangList, getStaticWednesdayCentersFromSheet.          *)
(*                                                                         *)
(* Encoding of JavaScript values:                                          *)
(*   - a calendar date is a tuple <<y, m, d>>; the text "yyyy-MM-dd" of a   *)
(*     date is that tuple, the text "dd-MM-yyyy" is the tuple <<d, m, y>>,  *)
(*     so that lexical order of the two texts differs as it does in JS;    *)
(*   - a month "yyyy-MM" is the tuple <<y, m>>;                             *)
(*   - a cell value is a record [t, pad, sep, f, n] (see DateCell).        *)
(***************************************************************************)
EXTENDS Integers, Sequences, FiniteSets, TLC

VARIABLES
    lenient,        \* Utilities.parseDate rolls over out-of-range fields (Java default) or rejects them
    inputValue,     \* parseDateValue: the cell value handed in
    pdvOutcome      \* parseDateValue: "pending", or the outcome record of the call

parseVars == <<lenient, inputValue, pdvOutcome>>

VARIABLES
    dashboardSheet, \* the data rows of sheet "Dashboard" (header row left out), or NoSheet
    configColumn,   \* column A of sheet "Configuration", or NoSheet
    requestedMonth, \* getDataForDashboard: the argument
    currentMonth,   \* the month of new Date() in the script time zone
    pc,                  \* getDataForDashboard: where the call is
    rowIndex,            \* the loop variable i of the first pass (counted from 1, header left out)
    availableMonthsSet,  \* the Set of months, in insertion order
    allValidDataItems,   \* the items of the rows whose date parsed
    actualSelectedMonth, \* the month selected, NoMonth for null
    caught,              \* the message of the exception the try block threw
    buckets,             \* sundayRows, wednesdayRows and specialRows
    result,              \* "pending", or the outcome of the getDataForDashboard call
    previous,            \* the outcome of an earlier getDataForDashboard call on the same tables
    missingEntries       \* "pending", or the outcome of the findMissingDateEntries call

dashInputs == <<dashboardSheet, configColumn, requestedMonth, currentMonth>>
callerVars == <<previous, missingEntries>>
dashVars == <<dashboardSheet, configColumn, requestedMonth, currentMonth, pc, rowIndex,
              availableMonthsSet, allValidDataItems, actualSelectedMonth, caught, buckets, result,
              previous, missingEntries>>

VARIABLES
    dataItems,          \* processAndSortData: the items handed in, as far as they are folded
    allRelevantCenters, \* processAndSortData: the centre list handed in
    fold,               \* processedData and uniqueDateInfo
    pivotResult         \* "pending", or the object processAndSortData returned

pivotVars == <<dataItems, allRelevantCenters, fold, pivotResult>>

VARIABLES
    eventList           \* processSpecialSatsangList: "pending", or the list returned

listVars == <<eventList>>

VARIABLES
    fileToDeleteId,     \* the script property "fileToDeleteId": the ids it lists, <<>> when unset
    driveTrashed,       \* the files setTrashed(true) was called on
    projectTriggers,    \* the number of triggers that run deleteTemporaryFile
    exports,            \* for each export: where it is, its locals and what it has done
    cleanup             \* deleteTemporaryFile: where it is and its locals

exportVars == <<fileToDeleteId, driveTrashed, projectTriggers, exports, cleanup>>

vars == <<lenient, inputValue, pdvOutcome, dashboardSheet, configColumn, requestedMonth,
          currentMonth, pc, rowIndex, availableMonthsSet, allValidDataItems, actualSelectedMonth,
          caught, buckets, result, previous, missingEntries, dataItems, allRelevantCenters, fold,
          pivotResult, eventList, fileToDeleteId, driveTrashed, projectTriggers, exports, cleanup>>

Null == <<>>

\* ------------------------------------------------------------------------
\* Calendar arithmetic of the script runtime (java.util.GregorianCalendar
\* behind Utilities.parseDate / Utilities.formatDate: Julian before
\* 1582-10-15, Gregorian from then on).
\* ------------------------------------------------------------------------
JdnShift(y, m) == (14 - m) \div 12

JdnOfGregorian(y, m, d) ==
    LET a  == JdnShift(y, m)
        yy == y + 4800 - a
        mm == m + 12 * a - 3
    IN d + ((153 * mm + 2) \div 5) + 365 * yy + (yy \div 4) - (yy \div 100) + (yy \div 400) - 32045

JdnOfJulian(y, m, d) ==
    LET a  == JdnShift(y, m)
        yy == y + 4800 - a
        mm == m + 12 * a - 3
    IN d + ((153 * mm + 2) \div 5) + 365 * yy + (yy \div 4) - 32083

\* the first Gregorian day, 1582-10-15
GregorianCutoverJDN == JdnOfGregorian(1582, 10, 15)

\* day number of day d of month m (1..12) of year y; d may be out of range
DayNumber(y, m, d) ==
    IF JdnOfGregorian(y, m, d) >= GregorianCutoverJDN
    THEN JdnOfGregorian(y, m, d)
    ELSE JdnOfJulian(y, m, d)

\* the calendar date <<y, m, d>> of a day number
CivilOfDayNumber(j) ==
    LET f == IF j >= GregorianCutoverJDN
             THEN j + 1401 + ((((4 * j + 274277) \div 146097) * 3) \div 4) - 38
             ELSE j + 1401
        e == 4 * f + 3
        g == (e % 1461) \div 4
        h == 5 * g + 2
        D == ((h % 153) \div 5) + 1
        M == (((h \div 153) + 2) % 12) + 1
        Y == (e \div 1461) - 4716 + ((12 + 2 - M) \div 12)
    IN <<Y, M, D>>

\* a real calendar date: the fields survive the trip through the calendar
IsCalendarDate(y, m, d) ==
    /\ m \in 1..12
    /\ d >= 1
    /\ CivilOfDayNumber(DayNumber(y, m, d)) = <<y, m, d>>

\* lenient field resolution: month overflow carries into the year, day
\* overflow into the following months
ResolveLenient(y, m, d) ==
    LET y2 == y + ((m - 1) \div 12)
        m2 == ((m - 1) % 12) + 1
    IN CivilOfDayNumber(DayNumber(y2, m2, 1) + d - 1)

\* ------------------------------------------------------------------------
\* Cell values (what Range.getValues() hands to parseDateValue).
\*   t = "str"  : k = "fields"  the text  f[1] sep f[2] sep f[3], surrounded
\*                              by white space when pad;
\*                k = "garbage" a text with no date shape ("abc");
\*                k = "empty"   "" (pad = FALSE) or white space only (pad);
\*   t = "date" : a JS Date; k = "valid" with calendar date f, or "invalid";
\*   t = "num"  : k = "finite"  the number n (a day count, |n| < 10^8);
\*                k = "ms"      a number between 10^12 and 10^13;
\*   t = "other": k = "truthy" (true, an object) or "falsy" (null, false).
\* ------------------------------------------------------------------------
Cell(t, k, pad, sep, f, n) == [t |-> t, k |-> k, pad |-> pad, sep |-> sep, f |-> f, n |-> n]

StrFields(pad, sep, f) == Cell("str", "fields", pad, sep, f, 0)
StrGarbage == Cell("str", "garbage", FALSE, "", Null, 0)
StrEmpty == Cell("str", "empty", FALSE, "", Null, 0)
StrBlank == Cell("str", "empty", TRUE, "", Null, 0)
DateObj(f) == Cell("date", "valid", FALSE, "", f, 0)
InvalidDateObj == Cell("date", "invalid", FALSE, "", Null, 0)
Num(n) == Cell("num", "finite", FALSE, "", Null, n)
NumMillis == Cell("num", "ms", FALSE, "", Null, 0)
OtherTruthy == Cell("other", "truthy", FALSE, "", Null, 0)
OtherFalsy == Cell("other", "falsy", FALSE, "", Null, 0)

\* String.prototype.trim
Trim(s) == [s EXCEPT !.pad = FALSE]

\* the date formats, as separator and field order
Fmt(sep, order) == [sep |-> sep, order |-> order]
preferredFormat == Fmt("-", "ymd")
alternativeFormats == <<Fmt("-", "dmy"), Fmt("/", "dmy"), Fmt("/", "mdy")>>

\* the <<y, m, d>> a format reads from the three numbers of a text
FieldsOf(f, order) ==
    CASE order = "ymd" -> <<f[1], f[2], f[3]>>
      [] order = "dmy" -> <<f[3], f[2], f[1]>>
      [] order = "mdy" -> <<f[3], f[1], f[2]>>

\* Utilities.parseDate(text, tz, format): the Date (as its calendar date in
\* tz), or Null where it throws.  Field widths are not checked (SimpleDateFormat
\* reads each number up to the next separator).
UtilitiesParseDate(s, fmt, len) ==
    IF s.t # "str" \/ s.k # "fields" \/ s.pad \/ s.sep # fmt.sep
    THEN Null
    ELSE LET ymd == FieldsOf(s.f, fmt.order)
         IN IF len THEN ResolveLenient(ymd[1], ymd[2], ymd[3])
            ELSE IF IsCalendarDate(ymd[1], ymd[2], ymd[3]) THEN ymd ELSE Null

\* the for-loop over alternativeFormats from position i: first success wins
RECURSIVE TryAlternatives(_, _, _)
TryAlternatives(s, i, len) ==
    IF i > Len(alternativeFormats) THEN Null
    ELSE IF UtilitiesParseDate(s, alternativeFormats[i], len) # Null
         THEN UtilitiesParseDate(s, alternativeFormats[i], len)
         ELSE TryAlternatives(s, i + 1, len)

\* attempts 1 and 2 on a non-empty trimmed text
ParseString(trimmedDateStr, len) ==
    IF UtilitiesParseDate(trimmedDateStr, preferredFormat, len) # Null
    THEN UtilitiesParseDate(trimmedDateStr, preferredFormat, len)
    ELSE TryAlternatives(trimmedDateStr, 1, len)

\* attempt 4: a positive number as a day count after 1899-12-30
SerialEpoch == <<1899, 12, 30>>
MinYear == 1900
MaxYear == 2100

ParseSerial(v) ==
    IF v.k = "ms"
    THEN \* baseDate + v * 86400000 is beyond the Date range: tempDate is an
         \* Invalid Date, its year is NaN, both year comparisons are false,
         \* and potentialDate is invalid too
         Null
    ELSE LET date == CivilOfDayNumber(DayNumber(SerialEpoch[1], SerialEpoch[2], SerialEpoch[3]) + v.n)
         IN IF date[1] < MinYear \/ date[1] > MaxYear
            THEN \* v.n is below 10^12: the Error is thrown and caught
                 Null
            ELSE date

\* the value of parsedDateObj when the final formatting block is reached
ParsedDateObj(v, len) ==
    LET fromString == IF v.t = "str" THEN ParseString(Trim(v), len) ELSE Null
        fromDate   == IF fromString = Null /\ v.t = "date" /\ v.k = "valid" THEN v.f ELSE fromString
    IN IF fromDate = Null /\ v.t = "num" /\ (v.k = "ms" \/ v.n > 0)
       THEN ParseSerial(v)
       ELSE fromDate

\* the names bound in the body of parseDateValue (parameters and locals) and
\* at the top level of the script
ParseDateValueScope ==
    {"inputValue", "sheetRowIndex", "parsedDateObj", "originalValueForLog",
     "scriptTimeZone", "preferredFormat", "alternativeFormats",
     "SCRIPT_TIMEZONE", "Utilities", "Logger", "Session"}

\* outcomes of a call
Pending == [kind |-> "pending", value |-> Null, message |-> ""]
Returned(value) == [kind |-> "return", value |-> value, message |-> ""]
Thrown(message) == [kind |-> "throw", value |-> Null, message |-> message]

\* the final block: Utilities.formatDate(parsedDate, SCRIPT_TIMEZONE, "yyyy-MM-dd")
\* inside try, whose catch logs `${parsedDate} ... ${origin}`.  Reading a name
\* that is not in scope throws a ReferenceError; thrown in the catch block
\* it leaves the function.
FormatTryNames == {"parsedDate", "SCRIPT_TIMEZONE", "Utilities"}
FormatCatchNames == {"parsedDate", "SCRIPT_TIMEZONE", "origin", "Logger"}

FormatParsed(parsedDateObj) ==
    IF FormatTryNames \subseteq ParseDateValueScope
    THEN Returned(parsedDateObj)
    ELSE IF FormatCatchNames \subseteq ParseDateValueScope
         THEN Returned(Null)
         ELSE Thrown("parsedDate is not defined")

parseDateValue(v, len) ==
    IF v.t = "str" /\ Trim(v).k = "empty"
    THEN Returned(Null)
    ELSE IF ParsedDateObj(v, len) # Null
         THEN FormatParsed(ParsedDateObj(v, len))
         ELSE Returned(Null)

\* ------------------------------------------------------------------------
\* Texts, rows and items.
\* A display text is [s, pad]: the characters s, surrounded by white space
\* when pad.  "" is [s |-> "", pad |-> FALSE], a white-space-only text is
\* [s |-> "", pad |-> TRUE].
\* ------------------------------------------------------------------------
Text(s, pad) == [s |-> s, pad |-> pad]

\* text.trim(), as the characters that remain
TrimText(x) == x.s

\* JS truthiness of a text
Truthy(x) == ~(x.s = "" /\ ~x.pad)

\* String.prototype.toLowerCase on the day labels that occur
ToLowerCase(str) ==
    CASE str \in {"Sunday", "SUNDAY", "sunday"} -> "sunday"
      [] str \in {"Wednesday", "WEDNESDAY", "wednesday"} -> "wednesday"
      [] str \in {"Birthday", "birthday"} -> "birthday"
      [] OTHER -> str

\* an attendance cell: a number n, a text holding the number n (possibly
\* with thousands separators), or a text that parseFloat turns into NaN
Att(t, k, n) == [t |-> t, k |-> k, n |-> n]
AttNum(n) == Att("num", "number", n)
AttNumText(n) == Att("str", "numeric", n)
AttEmpty == Att("str", "empty", 0)
AttGarbage == Att("str", "garbage", 0)

\* a row of the sheet: columns COL_DAY, COL_DATE, COL_CENTRE, COL_SANGAT.
\* day and centre are read from the display row, date and sangat from the
\* value row; the display text of sangat is the totalSangat detail
COL_DAY == 1
COL_DATE == 2
COL_CENTRE == 3
COL_SANGAT == 4

Row(day, date, centre, sangat) == <<day, date, centre, sangat>>

\* { valueRow, displayRow, ymd }
Item(row, ymd) == [row |-> row, ymd |-> ymd]

NoSheet == [present |-> FALSE, rows |-> <<>>]
Sheet(rows) == [present |-> TRUE, rows |-> rows]
NoMonth == <<>>
NoResult == [pending |-> TRUE]

\* ymd.substring(0, 7)
MonthOf(ymd) == <<ymd[1], ymd[2]>>

\* ymd.startsWith(month) for a month "yyyy-MM"
StartsWith(ymd, month) == MonthOf(ymd) = month

\* a < b for two "yyyy-MM" (or two "yyyy-MM-dd") texts
RECURSIVE LexLess(_, _)
LexLess(a, b) ==
    IF a = <<>> THEN b # <<>>
    ELSE IF b = <<>> THEN FALSE
    ELSE IF a[1] # b[1] THEN a[1] < b[1]
    ELSE LexLess(Tail(a), Tail(b))

\* the comparators: localeCompare of the two keys, and 0 (no order) when
\* a key is missing
KeyLess(a, b) == a # <<>> /\ b # <<>> /\ LexLess(a, b)

\* Array.prototype.sort (stable) of a sequence of <<sortKey, element>> pairs
\* by a comparator that orders the sort keys as texts
RECURSIVE InsertSorted(_, _)
InsertSorted(sorted, x) ==
    IF sorted = <<>> THEN <<x>>
    ELSE IF KeyLess(x[1], sorted[Len(sorted)][1])
         THEN Append(InsertSorted(SubSeq(sorted, 1, Len(sorted) - 1), x), sorted[Len(sorted)])
         ELSE Append(sorted, x)

RECURSIVE StableSort(_)
StableSort(seq) ==
    IF seq = <<>> THEN <<>>
    ELSE InsertSorted(StableSort(SubSeq(seq, 1, Len(seq) - 1)), seq[Len(seq)])

\* the elements of a sequence of <<sortKey, element>> pairs
Elements(pairs) == [i \in 1..Len(pairs) |-> pairs[i][2]]

\* Array.prototype.reverse
Reverse(seq) == [i \in 1..Len(seq) |-> seq[Len(seq) + 1 - i]]

\* the elements of a sequence
Range(seq) == {seq[i] : i \in 1..Len(seq)}

\* Set.prototype.add on a set kept in insertion order
SetAdd(setSeq, x) == IF x \in Range(setSeq) THEN setSeq ELSE Append(setSeq, x)

\* ------------------------------------------------------------------------
\* processAndSortData
\* ------------------------------------------------------------------------
customCentreOrder ==
    <<"ALWAR", "ALWAR-2", "BEHROR", "BHIWADI", "BHOJRAJKA", "CHIKANI", "DESULA",
      "FATEHPUR", "GOBINDGARH", "GUNTASHAPUR", "HALDEENA", "HAZIPUR", "JHALATALA",
      "KARANA", "KARNIKOT", "KASBA DEHRA", "KAYSA", "KHAIRTHAL", "KISHANGARH BAS",
      "LAXMANGARH", "MUBARIKPUR", "MUNDAWAR", "PAHADI", "PARVENI", "PAWTI",
      "PEPEAL KHERA", "PRATAPGARH", "RAJGARH", "RAMGARH", "RATA KHURD", "SHAHBAD",
      "SHAJHANPUR", "TAPUKARA", "TATARPUR">>

boldCentres == {"ALWAR", "ALWAR-2", "RAMGARH", "KHAIRTHAL", "CHIKANI"}

\* `_UnknownCentre_${index}`
UnknownCentre(index) == "_UnknownCentre_" \o ToString(index)

\* the order String.prototype.localeCompare puts the centre names in:
\* the empty name, the names starting with "_", then the letters
CollationOrder ==
    <<"">> \o [i \in 1..10 |-> UnknownCentre(i - 1)] \o customCentreOrder \o <<"ZED">>

LocaleRank(name) == CHOOSE i \in 1..Len(CollationOrder) : CollationOrder[i] = name

\* Utilities.formatDate(date, tz, "dd-MM-yyyy")
FormatDisplay(date) == <<date[3], date[2], date[1]>>

\* the text "yyyy-MM-dd" of an item's ymd, as a cell
YmdText(ymd) == StrFields(FALSE, "-", ymd)

\* originalDate: Utilities.parseDate(ymd, tz, "yyyy-MM-dd"), and where that
\* throws, new Date(year, month - 1, day), which rolls over
OriginalDate(ymd, len) ==
    IF UtilitiesParseDate(YmdText(ymd), preferredFormat, len) # Null
    THEN UtilitiesParseDate(YmdText(ymd), preferredFormat, len)
    ELSE ResolveLenient(ymd[1], ymd[2], ymd[3])

DatePivotKey(ymd, len) == FormatDisplay(OriginalDate(ymd, len))

\* the centre name an item is filed under
CentreNameOf(item, index) ==
    IF Truthy(item.row[COL_CENTRE])
    THEN TrimText(item.row[COL_CENTRE])
    ELSE UnknownCentre(index)

\* eventDetails: the display values of the detail columns
EventDetails(item) == [totalSangat |-> item.row[COL_SANGAT]]

\* numericSangat is a number (not NaN)
IsNumericSangat(sangatValue) ==
    \/ sangatValue.t = "num"
    \/ sangatValue.t = "str" /\ sangatValue.k = "numeric"

NumericSangat(sangatValue) == sangatValue.n

EmptyAggregate == [dateData |-> <<>>, totalSangatSum |-> 0, sangatCount |-> 0]

\* uniqueDateInfo is a sequence of <<datePivotKey, dateSortKey>> in insertion order
\* HasDateKey answering yes as soon as any date is recorded
HasDateKey_AnyKey(uniqueDateInfo, key) == Len(uniqueDateInfo) > 0

HasDateKey(uniqueDateInfo, key) == \E i \in 1..Len(uniqueDateInfo) : uniqueDateInfo[i][1] = key

EmptyFold == [processedData |-> <<>>, uniqueDateInfo |-> <<>>]

\* StoreCell with the presence check left out: every item overwrites the cell
StoreCell_Overwrite(agg, datePivotKey, item) ==
    LET sangatValue == item.row[COL_SANGAT]
    IN [dateData |-> [k \in DOMAIN agg.dateData \cup {datePivotKey} |->
                        IF k = datePivotKey THEN EventDetails(item) ELSE agg.dateData[k]],
        totalSangatSum |-> agg.totalSangatSum,
        sangatCount |-> agg.sangatCount]

\* StoreCell with the accumulation outside the presence check: every item
\* with a numeric attendance is counted
StoreCell_CountEveryRow(agg, datePivotKey, item) ==
    LET sangatValue == item.row[COL_SANGAT]
    IN [dateData |-> IF datePivotKey \in DOMAIN agg.dateData
                     THEN agg.dateData
                     ELSE agg.dateData @@ (datePivotKey :> EventDetails(item)),
        totalSangatSum |-> IF IsNumericSangat(sangatValue)
                           THEN agg.totalSangatSum + NumericSangat(sangatValue)
                           ELSE agg.totalSangatSum,
        sangatCount |-> IF IsNumericSangat(sangatValue)
                        THEN agg.sangatCount + 1
                        ELSE agg.sangatCount]

\* StoreCell storing a cell only for a numeric attendance
StoreCell_NumericOnly(agg, datePivotKey, item) ==
    LET sangatValue == item.row[COL_SANGAT]
    IN IF datePivotKey \in DOMAIN agg.dateData \/ ~IsNumericSangat(sangatValue)
       THEN agg
       ELSE [dateData |-> agg.dateData @@ (datePivotKey :> EventDetails(item)),
             totalSangatSum |-> agg.totalSangatSum + NumericSangat(sangatValue),
             sangatCount |-> agg.sangatCount + 1]

\* the cell is stored only when the pair has none yet; the attendance is
\* accumulated only then
StoreCell(agg, datePivotKey, item) ==
    IF datePivotKey \in DOMAIN agg.dateData
    THEN agg
    ELSE LET sangatValue == item.row[COL_SANGAT]
         IN [dateData |-> agg.dateData @@ (datePivotKey :> EventDetails(item)),
             totalSangatSum |-> IF IsNumericSangat(sangatValue)
                                THEN agg.totalSangatSum + NumericSangat(sangatValue)
                                ELSE agg.totalSangatSum,
             sangatCount |-> IF IsNumericSangat(sangatValue)
                             THEN agg.sangatCount + 1
                             ELSE agg.sangatCount]

\* one call of the items.forEach callback (index counts from 0)
FoldItem(acc, item, index, len) ==
    IF item.ymd = Null
    THEN acc
    ELSE LET centreName   == CentreNameOf(item, index)
             datePivotKey == DatePivotKey(item.ymd, len)
             agg          == IF centreName \in DOMAIN acc.processedData
                             THEN acc.processedData[centreName]
                             ELSE EmptyAggregate
         IN [processedData |->
                [c \in DOMAIN acc.processedData \cup {centreName} |->
                    IF c = centreName THEN StoreCell(agg, datePivotKey, item)
                    ELSE acc.processedData[c]],
             uniqueDateInfo |->
                IF HasDateKey(acc.uniqueDateInfo, datePivotKey)
                THEN acc.uniqueDateInfo
                ELSE Append(acc.uniqueDateInfo, <<datePivotKey, item.ymd>>)]

RECURSIVE FoldItems(_, _, _)
FoldItems(items, n, len) ==
    IF n = 0 THEN EmptyFold
    ELSE FoldItem(FoldItems(items, n - 1, len), items[n], n - 1, len)

\* SortedDateKeys comparing the display keys themselves
SortedDateKeys_ByDisplayKey(uniqueDateInfo) ==
    Elements(StableSort([i \in 1..Len(uniqueDateInfo) |->
                            <<uniqueDateInfo[i][1], uniqueDateInfo[i][1]>>]))

\* Object.keys(uniqueDateInfo).sort(by the sort keys)
SortedDateKeys(uniqueDateInfo) ==
    Elements(StableSort([i \in 1..Len(uniqueDateInfo) |->
                            <<uniqueDateInfo[i][2], uniqueDateInfo[i][1]>>]))

\* the for-loop over sortedDateKeys: some date has no cell
LacksSomeDate(dateData, sortedDateKeys) ==
    \E i \in 1..Len(sortedDateKeys) : sortedDateKeys[i] \notin DOMAIN dateData

NotApplicable == [na |-> TRUE, tenths |-> 0]

\* ToFixed1 cutting the digits after the first decimal off
ToFixed1_Truncated(sum, count) == [na |-> FALSE, tenths |-> (10 * sum) \div count]

\* (sum / count).toFixed(1), in tenths
ToFixed1(sum, count) == [na |-> FALSE, tenths |-> (20 * sum + count) \div (2 * count)]

AverageSangat(agg) ==
    IF agg.sangatCount > 0 THEN ToFixed1(agg.totalSangatSum, agg.sangatCount) ELSE NotApplicable

\* RelevantCentreRow flagging only the centres without any entry
RelevantCentreRow_OnlyAbsent(centreName, processedData, sortedDateKeys) ==
    LET known == centreName \in DOMAIN processedData
    IN [centre |-> centreName,
        isBold |-> centreName \in boldCentres,
        dateData |-> IF known THEN processedData[centreName].dateData ELSE <<>>,
        averageSangat |-> IF known THEN AverageSangat(processedData[centreName]) ELSE NotApplicable,
        isMissingData |-> Len(sortedDateKeys) > 0 /\ ~known]

\* RelevantCentreRow flagging every centre without an entry, dates or not
RelevantCentreRow_AbsentIsMissing(centreName, processedData, sortedDateKeys) ==
    LET known == centreName \in DOMAIN processedData
    IN [centre |-> centreName,
        isBold |-> centreName \in boldCentres,
        dateData |-> IF known THEN processedData[centreName].dateData ELSE <<>>,
        averageSangat |-> IF known THEN AverageSangat(processedData[centreName]) ELSE NotApplicable,
        isMissingData |->
            \/ ~known
            \/ /\ Len(sortedDateKeys) > 0
               /\ LacksSomeDate(processedData[centreName].dateData, sortedDateKeys)]

\* the row pushed for a centre of the list handed in
RelevantCentreRow(centreName, processedData, sortedDateKeys) ==
    LET known == centreName \in DOMAIN processedData
    IN [centre |-> centreName,
        isBold |-> centreName \in boldCentres,
        dateData |-> IF known THEN processedData[centreName].dateData ELSE <<>>,
        averageSangat |-> IF known THEN AverageSangat(processedData[centreName]) ELSE NotApplicable,
        isMissingData |->
            /\ Len(sortedDateKeys) > 0
            /\ \/ ~known
               \/ LacksSomeDate(processedData[centreName].dateData, sortedDateKeys)]

\* ExtraCentreRow never flagging a centre
ExtraCentreRow_NeverMissing(centreName, processedData, sortedDateKeys) ==
    [centre |-> centreName,
     isBold |-> centreName \in boldCentres,
     dateData |-> processedData[centreName].dateData,
     averageSangat |-> AverageSangat(processedData[centreName]),
     isMissingData |-> FALSE]

\* the row pushed for a centre found in the data only
ExtraCentreRow(centreName, processedData, sortedDateKeys) ==
    [centre |-> centreName,
     isBold |-> centreName \in boldCentres,
     dateData |-> processedData[centreName].dateData,
     averageSangat |-> AverageSangat(processedData[centreName]),
     isMissingData |->
        /\ Len(sortedDateKeys) > 0
        /\ LacksSomeDate(processedData[centreName].dateData, sortedDateKeys)]

\* Object.keys(processedData).sort(localeCompare)
SetToSeq(S) == CHOOSE seq \in [1..Cardinality(S) -> S] : Range(seq) = S

\* SortedCentreNames with the comparator turned round
SortedCentreNames_Descending(processedData) ==
    LET names == SetToSeq(DOMAIN processedData)
    IN Reverse(Elements(StableSort([i \in 1..Len(names) |-> <<<<LocaleRank(names[i])>>, names[i]>>])))

SortedCentreNames(processedData) ==
    LET names == SetToSeq(DOMAIN processedData)
    IN Elements(StableSort([i \in 1..Len(names) |-> <<<<LocaleRank(names[i])>>, names[i]>>]))

\* finalTemplateData
TemplateData(processedData, sortedDateKeys, relevantCenters) ==
    LET extras == SelectSeq(SortedCentreNames(processedData),
                            LAMBDA c : c \notin Range(relevantCenters))
    IN [i \in 1..Len(relevantCenters) |->
            RelevantCentreRow(relevantCenters[i], processedData, sortedDateKeys)]
       \o [i \in 1..Len(extras) |-> ExtraCentreRow(extras[i], processedData, sortedDateKeys)]

PivotResult(acc, relevantCenters) ==
    [templateData |-> TemplateData(acc.processedData, SortedDateKeys(acc.uniqueDateInfo),
                                   relevantCenters),
     sortedDates |-> SortedDateKeys(acc.uniqueDateInfo)]

\* processedData is an object literal: a centre name that Object.prototype
\* defines is found in it before any row was stored, its value has no
\* dateData, and reading a date key of that throws a TypeError
InheritedKeys ==
    {"constructor", "toString", "valueOf", "hasOwnProperty", "isPrototypeOf",
     "propertyIsEnumerable", "toLocaleString", "__proto__"}

UndefinedDateData == "Cannot read properties of undefined"

\* the forEach callback throws on some item
RaisesTypeError(items) ==
    \E i \in 1..Len(items) :
        /\ items[i].ymd # Null
        /\ CentreNameOf(items[i], i - 1) \in InheritedKeys

processAndSortData(items, relevantCenters, len) ==
    PivotResult(FoldItems(items, Len(items), len), relevantCenters)

\* ------------------------------------------------------------------------
\* processSpecialSatsangList
\* ------------------------------------------------------------------------
\* the event object of an item; ymdForSort is one of its fields
EventObject(item) ==
    [ymdForSort |-> item.ymd,
     date |-> item.row[COL_DATE],
     day |-> item.row[COL_DAY],
     centre |-> item.row[COL_CENTRE],
     totalSangat |-> item.row[COL_SANGAT]]

\* "pending", and the list a call returned
NoList == [pending |-> TRUE, list |-> <<>>]
ReturnedList(list) == [pending |-> FALSE, list |-> list]

\* processSpecialSatsangList leaving the events in the order of the items
processSpecialSatsangList_Unsorted(items) ==
    [i \in 1..Len(items) |-> EventObject(items[i])]

\* the comparator returns 0 when a sort key is missing
processSpecialSatsangList(items) ==
    Elements(StableSort([i \in 1..Len(items) |-> <<items[i].ymd, EventObject(items[i])>>]))

\* ------------------------------------------------------------------------
\* getStaticWednesdayCentersFromSheet
\* ------------------------------------------------------------------------
\* getRange("A1:A").getValues().filter(String).length
CountNonEmpty(column) == Cardinality({i \in 1..Len(column) : Truthy(column[i])})

getStaticWednesdayCentersFromSheet(column) ==
    IF ~column.present THEN <<>>
    ELSE IF CountNonEmpty(column.rows) = 0 THEN <<>>
    ELSE LET values  == SubSeq(column.rows, 1, CountNonEmpty(column.rows))
             centers == [i \in 1..Len(values) |-> TrimText(values[i])]
         IN SelectSeq(centers, LAMBDA name : name # "")

\* ------------------------------------------------------------------------
\* getDataForDashboard
\* ------------------------------------------------------------------------
DashboardResult(sunday, wednesday, special, error, availableMonths, selectedMonth) ==
    [sunday |-> sunday, wednesday |-> wednesday, special |-> special, error |-> error,
     availableMonths |-> availableMonths, selectedMonth |-> selectedMonth]

NoPivot == [null |-> TRUE]
NoError == ""

\* SortedDescending without the sort: the months as inserted, reversed
SortedDescending_NoSort(months) == Reverse(months)

\* Array.from(months).sort().reverse(), months being availableMonthsSet
SortedDescending(months) ==
    Reverse(Elements(StableSort([i \in 1..Len(months) |->
                                    <<months[i], months[i]>>])))

\* selected, NoMonth when there is no month to select
SelectMonth(requested, current, months) ==
    IF requested # NoMonth /\ requested \in Range(months) THEN requested
    ELSE IF current \in Range(months) THEN current
    ELSE IF Len(SortedDescending(months)) > 0
         THEN SortedDescending(months)[1]
         ELSE NoMonth

\* the Devanagari day labels of the second pass (Sunday, Wednesday), written
\* here in Latin letters
Ravivar == "ravivar_devanagari"
Budhvar == "budhvar_devanagari"

\* the bucket the forEach callback of the second pass pushes an item to
Bucket(item) ==
    LET dayValue   == ToLowerCase(TrimText(item.row[COL_DAY]))
        centreName == item.row[COL_CENTRE]
    IN IF ~Truthy(centreName) \/ TrimText(centreName) = "" THEN "none"
       ELSE IF dayValue = "sunday" \/ dayValue = Ravivar THEN "sunday"
       ELSE IF dayValue = "wednesday" \/ dayValue = Budhvar THEN "wednesday"
       ELSE IF dayValue # "" THEN "special"
       ELSE "none"

BucketRows(filteredDataItems, bucket) ==
    SelectSeq(filteredDataItems, LAMBDA item : Bucket(item) = bucket)

\* sundayRows, wednesdayRows, specialRows after the second pass
Categorize(filteredDataItems) ==
    [sundayRows |-> BucketRows(filteredDataItems, "sunday"),
     wednesdayRows |-> BucketRows(filteredDataItems, "wednesday"),
     specialRows |-> BucketRows(filteredDataItems, "special")]

\* the three arrays as declared: let sundayRows = [] ...
EmptyBuckets == [sundayRows |-> <<>>, wednesdayRows |-> <<>>, specialRows |-> <<>>]

\* CaughtResult handing out what the buckets held: an empty Sunday pivot
CaughtResult_Partial(message, months, selected) ==
    DashboardResult([templateData |-> <<>>, sortedDates |-> <<>>], NoPivot, <<>>,
                    "Failed to load data: " \o message,
                    Reverse(SortedDescending(months)), selected)

\* the catch block of getDataForDashboard
CaughtResult(message, months, selected) ==
    DashboardResult(NoPivot, NoPivot, <<>>, "Failed to load data: " \o message,
                    Reverse(SortedDescending(months)), selected)

\* FilteredDataItems keeping every row
FilteredDataItems_Unfiltered(items, selected) == items

\* FilteredDataItems keeping the rows of the month of the clock
FilteredDataItems_ByCurrentMonth(items, selected) ==
    SelectSeq(items, LAMBDA item : StartsWith(item.ymd, currentMonth))

\* allValidDataItems.filter(item => item.ymd.startsWith(actualSelectedMonth))
FilteredDataItems(items, selected) ==
    SelectSeq(items, LAMBDA item : StartsWith(item.ymd, selected))

\* the object of the success return
SuccessResult(rows, months, selected, column, len) ==
    DashboardResult(
        processAndSortData(rows.sundayRows, customCentreOrder, len),
        processAndSortData(rows.wednesdayRows, getStaticWednesdayCentersFromSheet(column), len),
        processSpecialSatsangList(rows.specialRows),
        NoError,
        Reverse(SortedDescending(months)),
        selected)

\* ------------------------------------------------------------------------
\* findMissingDateEntries
\* ------------------------------------------------------------------------
\* { centerName, day, dates }
MissingEntry(centerName, day, dates) == [centerName |-> centerName, day |-> day, dates |-> dates]

\* dates.filter(date => !dateData[date])
MissingDates(dates, dateData) == SelectSeq(dates, LAMBDA date : date \notin DOMAIN dateData)

\* SundayEntries listing only the centres without any cell
SundayEntries_AbsentOnly(sundayResult) ==
    IF Len(sundayResult.templateData) > 0 /\ Len(sundayResult.sortedDates) > 0
    THEN LET lacking == SelectSeq(sundayResult.templateData,
                                  LAMBDA center : DOMAIN center.dateData = {})
         IN [i \in 1..Len(lacking) |->
                MissingEntry(lacking[i].centre, "Sunday", sundayResult.sortedDates)]
    ELSE <<>>

\* the entries pushed by the check of the Sundays
SundayEntries(sundayResult) ==
    IF Len(sundayResult.templateData) > 0 /\ Len(sundayResult.sortedDates) > 0
    THEN LET lacking == SelectSeq(sundayResult.templateData,
                                  LAMBDA center :
                                      MissingDates(sundayResult.sortedDates, center.dateData) # <<>>)
         IN [i \in 1..Len(lacking) |->
                MissingEntry(lacking[i].centre, "Sunday",
                             MissingDates(sundayResult.sortedDates, lacking[i].dateData))]
    ELSE <<>>

\* (templateData || []).find(row => row.centre === centerName): the dateData
\* of the first row of the centre; all dates are missing when there is none
MissingDatesForThisCenter(wednesdayResult, centerName) ==
    LET found == SelectSeq(wednesdayResult.templateData, LAMBDA row : row.centre = centerName)
    IN IF found = <<>>
       THEN wednesdayResult.sortedDates
       ELSE MissingDates(wednesdayResult.sortedDates, found[1].dateData)

\* the entries pushed by the check of the Wednesdays
WednesdayEntries(wednesdayResult, staticWednesdayCenters) ==
    IF Len(staticWednesdayCenters) > 0 /\ Len(wednesdayResult.sortedDates) > 0
    THEN LET lacking == SelectSeq(staticWednesdayCenters,
                                  LAMBDA centerName :
                                      MissingDatesForThisCenter(wednesdayResult, centerName) # <<>>)
         IN [i \in 1..Len(lacking) |->
                MissingEntry(lacking[i], "Wednesday",
                             MissingDatesForThisCenter(wednesdayResult, lacking[i]))]
    ELSE <<>>

\* findMissingDateEntries, from the result of its getDataForDashboard call
findMissingDateEntries(processedDataResult, column) ==
    IF processedDataResult.error # NoError
    THEN Thrown(processedDataResult.error)
    ELSE Returned(SundayEntries(processedDataResult.sunday)
                  \o WednesdayEntries(processedDataResult.wednesday,
                                      getStaticWednesdayCentersFromSheet(column)))

\* ------------------------------------------------------------------------
\* Specification of parseDateValue called on one cell value.
\* ------------------------------------------------------------------------
\* the numbers a date text is written with
FieldValues == {1, 2, 3, 12, 13, 29, 30, 31, 2023, 2024}
SerialValues == {0 - 5, 0, 1, 5, 45000, 45355, 80000}

DateTexts ==
    {StrFields(pad, sep, <<a, b, c>>) :
        pad \in BOOLEAN, sep \in {"-", "/"}, a \in FieldValues, b \in FieldValues, c \in FieldValues}

DateValues ==
    DateTexts
    \cup {StrGarbage, StrEmpty, StrBlank, InvalidDateObj, NumMillis, OtherTruthy, OtherFalsy}
    \cup {DateObj(<<2024, 3, 3>>), DateObj(<<2023, 12, 30>>)}
    \cup {Num(n) : n \in SerialValues}

\* the variables of the operations a specification does not run
IdleParse == inputValue = OtherFalsy /\ pdvOutcome = Pending
IdleDash ==
    /\ dashboardSheet = NoSheet /\ configColumn = NoSheet
    /\ requestedMonth = NoMonth /\ currentMonth = NoMonth
    /\ pc = "start" /\ rowIndex = 0
    /\ availableMonthsSet = <<>> /\ allValidDataItems = <<>>
    /\ actualSelectedMonth = NoMonth /\ caught = ""
    /\ buckets = EmptyBuckets /\ result = Pending
    /\ previous = Pending /\ missingEntries = Pending
IdlePivot ==
    /\ dataItems = <<>> /\ allRelevantCenters = <<>>
    /\ fold = EmptyFold /\ pivotResult = NoResult
IdleList == eventList = NoList

\* ---- the exports and deleteTemporaryFile ----
Exports == {"exportFilteredDataToExcel", "exportCompleteDataToExcel"}

\* the ids of the temporary spreadsheet and of the Excel file of an export
SpreadsheetId(e) == <<e, "spreadsheet">>
ExcelFileId(e) == <<e, "xlsx">>

\* the text the outer catch block puts before err.message
FailurePrefix(e) ==
    IF e = "exportFilteredDataToExcel" THEN "Export failed: " ELSE "Complete export failed: "

ServiceError == "Service error"
HttpError == "Failed Excel export (HTTP 500)."
DataErrors == {"No data rows found.", "Failed to load data: parsedDate is not defined"}

DownloadUrl(e) == <<"https://drive.google.com/uc?export=download&id=", ExcelFileId(e)>>

\* the locals of an export, and what it has done
ExportStart ==
    [pc |-> "start", spreadsheet |-> FALSE, prop |-> <<>>, existingTrigger |-> FALSE,
     wroteProperty |-> FALSE, createdTrigger |-> FALSE, outcome |-> Pending]
CleanupStart == [pc |-> "idle", fileIds |-> <<>>, attempted |-> {}]

IdleExport ==
    /\ fileToDeleteId = <<>> /\ driveTrashed = {} /\ projectTriggers = 0
    /\ exports = [e \in Exports |-> ExportStart]
    /\ cleanup = CleanupStart

ParseInit ==
    /\ lenient \in BOOLEAN
    /\ inputValue \in DateValues
    /\ pdvOutcome = Pending
    /\ IdleDash /\ IdlePivot /\ IdleList /\ IdleExport

ParseCall ==
    /\ pdvOutcome = Pending
    /\ pdvOutcome' = parseDateValue(inputValue, lenient)
    /\ UNCHANGED <<lenient, inputValue, dashVars, pivotVars, listVars, exportVars>>

ParseNext == ParseCall

SpecParse == ParseInit /\ [][ParseNext]_vars

\* the text d = "yyyy-MM-dd" of the calendar date <<y, m, d>>
IsCanonicalText(v) ==
    /\ v.t = "str" /\ v.k = "fields" /\ ~v.pad /\ v.sep = "-"
    /\ IsCalendarDate(v.f[1], v.f[2], v.f[3])

\* C1 (first half): parseDateValue never raises: every call returns a
\* yyyy-MM-dd text or null.
C1_NeverRaises ==
    pdvOutcome # Pending => pdvOutcome.kind = "return"

\* C2: for every valid calendar date written d = yyyy-MM-dd,
\* parseDateValue(d) returns exactly d.
C2_RoundTrip ==
    (pdvOutcome # Pending /\ IsCanonicalText(inputValue))
        => pdvOutcome = Returned(inputValue.f)

\* ------------------------------------------------------------------------
\* Specification of getDataForDashboard called on a spreadsheet.
\* ------------------------------------------------------------------------
MaxRows == 2

DayLabels == {Text("Sunday", FALSE), Text("WEDNESDAY", TRUE), Text("Birthday", FALSE), Text("", FALSE)}
SheetDates == {StrFields(FALSE, "-", <<2024, 3, 3>>), StrFields(FALSE, "-", <<2024, 1, 7>>)}

\* every day label on every date at a location; rows without a location;
\* rows without a date
SheetRows ==
    {Row(day, date, Text("ALWAR", FALSE), AttNum(100)) : day \in DayLabels, date \in SheetDates}
    \cup {Row(Text("Sunday", FALSE), StrFields(FALSE, "-", <<2024, 3, 3>>), Text("", TRUE), AttNum(100)),
          Row(Text("Birthday", FALSE), StrFields(FALSE, "-", <<2024, 1, 7>>), Text("", FALSE), AttNum(100)),
          Row(Text("Sunday", FALSE), StrGarbage, Text("ALWAR", FALSE), AttNum(100)),
          Row(Text("WEDNESDAY", TRUE), StrGarbage, Text("", TRUE), AttNum(100))}

Tables == {Sheet(rows) : rows \in UNION {[1..n -> SheetRows] : n \in 0..MaxRows}}

Months == {<<2024, 1>>, <<2024, 2>>, <<2024, 3>>, <<2024, 4>>}

\* column A of sheet "Configuration": absent, two centres, one centre typed twice
ConfigColumns ==
    {NoSheet,
     Sheet(<<Text("ALWAR", FALSE), Text("BEHROR", TRUE)>>),
     Sheet(<<Text("ALWAR", FALSE), Text("ALWAR", TRUE)>>)}

Init ==
    /\ lenient \in BOOLEAN
    /\ dashboardSheet \in {NoSheet} \cup Tables
    /\ configColumn \in ConfigColumns
    /\ requestedMonth \in {NoMonth, <<2024, 2>>, <<2024, 3>>}
    /\ currentMonth \in {<<2024, 1>>, <<2024, 4>>}
    /\ pc = "start" /\ rowIndex = 0
    /\ availableMonthsSet = <<>> /\ allValidDataItems = <<>>
    /\ actualSelectedMonth = NoMonth /\ caught = ""
    /\ buckets = EmptyBuckets /\ result = Pending
    /\ previous = Pending /\ missingEntries = Pending
    /\ IdleParse /\ IdlePivot /\ IdleList /\ IdleExport

\* the try block up to the first pass: the sheet is looked up and read
OpenSheet ==
    /\ pc = "start"
    /\ IF ~dashboardSheet.present
       THEN /\ pc' = "catch"
            /\ caught' = "Sheet 'Dashboard' not found!"
            /\ UNCHANGED <<rowIndex, result>>
       ELSE IF Len(dashboardSheet.rows) = 0
       THEN /\ pc' = "done"
            /\ result' = Returned(DashboardResult(NoPivot, NoPivot, <<>>, "No data rows found.",
                                                  <<>>, NoMonth))
            /\ UNCHANGED <<rowIndex, caught>>
       ELSE /\ pc' = "firstPass"
            /\ rowIndex' = 1
            /\ UNCHANGED <<caught, result>>
    /\ UNCHANGED <<lenient, dashInputs, availableMonthsSet, allValidDataItems,
                   actualSelectedMonth, buckets, callerVars, parseVars, pivotVars, listVars, exportVars>>

\* one turn of the loop of the first pass
FirstPassRow ==
    /\ pc = "firstPass"
    /\ rowIndex <= Len(dashboardSheet.rows)
    /\ LET row       == dashboardSheet.rows[rowIndex]
           parsedYMD == parseDateValue(row[COL_DATE], lenient)
       IN IF parsedYMD.kind = "throw"
          THEN /\ pc' = "catch"
               /\ caught' = parsedYMD.message
               /\ UNCHANGED <<rowIndex, availableMonthsSet, allValidDataItems>>
          ELSE /\ IF parsedYMD.value # Null
                  THEN /\ availableMonthsSet' = SetAdd(availableMonthsSet, MonthOf(parsedYMD.value))
                       /\ allValidDataItems' = Append(allValidDataItems, Item(row, parsedYMD.value))
                  ELSE UNCHANGED <<availableMonthsSet, allValidDataItems>>
               /\ rowIndex' = rowIndex + 1
               /\ UNCHANGED <<pc, caught>>
    /\ UNCHANGED <<lenient, dashInputs, actualSelectedMonth, buckets, result,
                   callerVars, parseVars, pivotVars, listVars, exportVars>>

\* the rest of the try block: the month is selected, the rows of the month
\* are categorized and the three results are built
SelectAndProcess ==
    /\ pc = "firstPass"
    /\ rowIndex > Len(dashboardSheet.rows)
    /\ actualSelectedMonth' = SelectMonth(requestedMonth, currentMonth, availableMonthsSet)
    /\ IF actualSelectedMonth' = NoMonth
       THEN /\ result' = Returned(DashboardResult(NoPivot, NoPivot, <<>>,
                                                  "No data with valid dates found.", <<>>, NoMonth))
            /\ pc' = "done"
            /\ UNCHANGED <<buckets, caught>>
       ELSE /\ buckets' = Categorize(FilteredDataItems(allValidDataItems, actualSelectedMonth'))
            /\ IF RaisesTypeError(buckets'.sundayRows) \/ RaisesTypeError(buckets'.wednesdayRows)
               THEN /\ pc' = "catch"
                    /\ caught' = UndefinedDateData
                    /\ UNCHANGED result
               ELSE /\ pc' = "done"
                    /\ result' = Returned(SuccessResult(buckets', availableMonthsSet,
                                                        actualSelectedMonth', configColumn, lenient))
                    /\ UNCHANGED caught
    /\ UNCHANGED <<lenient, dashInputs, rowIndex, availableMonthsSet, allValidDataItems,
                   callerVars, parseVars, pivotVars, listVars, exportVars>>

\* CatchBlock letting the exception go on to the caller
CatchBlock_Rethrow ==
    /\ pc = "catch"
    /\ pc' = "done"
    /\ result' = Thrown(caught)
    /\ UNCHANGED <<lenient, dashInputs, rowIndex, availableMonthsSet, allValidDataItems,
                   actualSelectedMonth, caught, buckets, callerVars, parseVars, pivotVars, listVars, exportVars>>

\* the catch block
CatchBlock ==
    /\ pc = "catch"
    /\ pc' = "done"
    /\ result' = Returned(CaughtResult(caught, availableMonthsSet, actualSelectedMonth))
    /\ UNCHANGED <<lenient, dashInputs, rowIndex, availableMonthsSet, allValidDataItems,
                   actualSelectedMonth, caught, buckets, callerVars, parseVars, pivotVars, listVars, exportVars>>

Next == OpenSheet \/ FirstPassRow \/ SelectAndProcess \/ CatchBlock

Spec == Init /\ [][Next]_vars

\* ---- what the pipeline is meant to compute, from the dates the rows hold ----
\* the calendar date a data row's date cell denotes (Null when it denotes none)
DateOfRow(row) == ParsedDateObj(row[COL_DATE], lenient)

\* the months of the rows whose date normalizes
MonthsOfTable == {MonthOf(DateOfRow(dashboardSheet.rows[i])) :
                    i \in {j \in 1..Len(dashboardSheet.rows) : DateOfRow(dashboardSheet.rows[j]) # Null}}

\* the greatest month of a non-empty set of months
GreatestMonth(S) == CHOOSE m \in S : \A o \in S : o = m \/ LexLess(o, m)

\* the month the priority rule selects
MonthByPriority ==
    IF MonthsOfTable = {} THEN NoMonth
    ELSE IF requestedMonth \in MonthsOfTable THEN requestedMonth
    ELSE IF currentMonth \in MonthsOfTable THEN currentMonth
    ELSE GreatestMonth(MonthsOfTable)

Finished == pc = "done"

\* C3: month selection follows the priority requested > current > most
\* recent, and with no available month the call ends with the error
\* "No data with valid dates found." and selectedMonth = null.
C3_MonthPriority ==
    (Finished /\ dashboardSheet.present /\ Len(dashboardSheet.rows) > 0)
        => /\ result.value.selectedMonth = MonthByPriority
           /\ MonthsOfTable = {} => result.value.error = "No data with valid dates found."

\* C4: getDataForDashboard never lets an exception escape: every call
\* returns a result object, and on a missing sheet, a header-only table, a
\* table without a parseable date or a failure raised inside the call the
\* error field of that object describes the failure.
FailureRaised == \E i \in 1..Len(dashboardSheet.rows) :
                    parseDateValue(dashboardSheet.rows[i][COL_DATE], lenient).kind = "throw"

C4_NoExceptionEscapes ==
    Finished
        => /\ result.kind = "return"
           /\ ~dashboardSheet.present
                => result.value.error = "Failed to load data: Sheet 'Dashboard' not found!"
           /\ (dashboardSheet.present /\ Len(dashboardSheet.rows) = 0)
                => result.value.error = "No data rows found."
           /\ (dashboardSheet.present /\ Len(dashboardSheet.rows) > 0 /\ MonthsOfTable = {})
                => result.value.error = "No data with valid dates found."
           /\ (dashboardSheet.present /\ FailureRaised)
                => result.value.error = "Failed to load data: parsedDate is not defined"

\* witness of C4: a call in which parseDateValue raised has returned
C4_Witness ==
    /\ Finished /\ dashboardSheet.present /\ FailureRaised
    /\ result.kind = "return"
    /\ result.value.error = "Failed to load data: parsedDate is not defined"

\* C5: a result with an error carries no partial output (sunday = null,
\* wednesday = null, special = []); a result without error carries both
\* pivots.
IsPivotResult(p) == DOMAIN p = {"templateData", "sortedDates"}

C5_NoPartialResults ==
    (Finished /\ result.kind = "return")
        => IF result.value.error # NoError
           THEN /\ result.value.sunday = NoPivot
                /\ result.value.wednesday = NoPivot
                /\ result.value.special = <<>>
           ELSE /\ IsPivotResult(result.value.sunday)
                /\ IsPivotResult(result.value.wednesday)

\* witness of C5: a call on a table with data rows ended in an error
C5_Witness ==
    /\ Finished /\ result.kind = "return"
    /\ dashboardSheet.present /\ Len(dashboardSheet.rows) > 0
    /\ result.value.error # NoError
    /\ result.value.sunday = NoPivot /\ result.value.special = <<>>

\* C6: every row of the selected month is classified by location and day
\* label: blank location => no bucket; sunday labels => Sunday bucket;
\* wednesday labels => Wednesday bucket; any other non-empty label =>
\* special bucket; empty label => no bucket; each bucket in table order.
ClaimedBucket(row) ==
    LET label == ToLowerCase(TrimText(row[COL_DAY]))
    IN IF TrimText(row[COL_CENTRE]) = "" THEN "none"
       ELSE IF label \in {"sunday", Ravivar} THEN "sunday"
       ELSE IF label \in {"wednesday", Budhvar} THEN "wednesday"
       ELSE IF label # "" THEN "special"
       ELSE "none"

\* the rows of the selected month that belong to a bucket, in table order
RowsClaimedIn(bucket) ==
    SelectSeq(dashboardSheet.rows,
              LAMBDA row : /\ DateOfRow(row) # Null
                           /\ MonthOf(DateOfRow(row)) = MonthByPriority
                           /\ ClaimedBucket(row) = bucket)

RowsOf(bucketItems) == [i \in 1..Len(bucketItems) |-> bucketItems[i].row]

C6_Classification ==
    (Finished /\ dashboardSheet.present)
        => /\ RowsOf(buckets.sundayRows) = RowsClaimedIn("sunday")
           /\ RowsOf(buckets.wednesdayRows) = RowsClaimedIn("wednesday")
           /\ RowsOf(buckets.specialRows) = RowsClaimedIn("special")

\* ------------------------------------------------------------------------
\* Specification of processAndSortData called on a bucket: the forEach
\* callback folds the items one by one, then the result is built.
\* ------------------------------------------------------------------------
MaxItems == 3

PivotDates == {<<2023, 12, 30>>, <<2024, 1, 2>>}
PivotSangat == {AttNum(100), AttNumText(1200), AttEmpty}

\* the date cell and the day label of a bucket row are not read again
PivotRow(centre, sangat) == Row(Text("Sunday", FALSE), StrGarbage, centre, sangat)

PivotItems ==
    {Item(PivotRow(Text("ALWAR", TRUE), sangat), ymd) :
        sangat \in PivotSangat \ {AttEmpty}, ymd \in PivotDates}
    \cup {Item(PivotRow(Text("ALWAR", TRUE), AttEmpty), <<2023, 12, 30>>),
          Item(PivotRow(Text("ZED", FALSE), AttNum(100)), <<2023, 12, 30>>),
          Item(PivotRow(Text("ZED", FALSE), AttEmpty), <<2024, 1, 2>>),
          Item(PivotRow(Text("", FALSE), AttNum(100)), <<2024, 1, 2>>),
          Item(PivotRow(Text("ALWAR", TRUE), AttNum(100)), <<2024, 1, 9>>),
          Item(PivotRow(Text("ALWAR", TRUE), AttNum(100)), Null)}

\* the lists getDataForDashboard hands in: customCentreOrder for the Sunday
\* bucket, the centres of the Configuration sheet for the Wednesday bucket
PivotCentreLists ==
    {customCentreOrder} \cup {getStaticWednesdayCentersFromSheet(column) : column \in ConfigColumns}

PivotInit ==
    /\ lenient \in BOOLEAN
    /\ dataItems = <<>>
    /\ allRelevantCenters \in PivotCentreLists
    /\ fold = EmptyFold
    /\ pivotResult = NoResult
    /\ IdleParse /\ IdleDash /\ IdleList /\ IdleExport

\* the forEach callback runs on the next item
FoldRow ==
    /\ pivotResult = NoResult
    /\ Len(dataItems) < MaxItems
    /\ \E item \in PivotItems :
        /\ dataItems' = Append(dataItems, item)
        /\ fold' = FoldItem(fold, item, Len(dataItems), lenient)
    /\ UNCHANGED <<lenient, allRelevantCenters, pivotResult, parseVars, dashVars, listVars, exportVars>>

\* the dates are sorted and the rows are built
BuildResult ==
    /\ pivotResult = NoResult
    /\ pivotResult' = PivotResult(fold, allRelevantCenters)
    /\ UNCHANGED <<lenient, dataItems, allRelevantCenters, fold, parseVars, dashVars, listVars, exportVars>>

PivotNext == FoldRow \/ BuildResult

SpecPivot == PivotInit /\ [][PivotNext]_vars

\* ---- what the claims speak of, read off the items handed in ----
\* the positions (from 1) of the items filed under a centre and a date key
RowsOfPair(centreName, dateKey) ==
    {i \in 1..Len(dataItems) :
        /\ dataItems[i].ymd # Null
        /\ CentreNameOf(dataItems[i], i - 1) = centreName
        /\ FormatDisplay(dataItems[i].ymd) = dateKey}

FirstRowOfPair(centreName, dateKey) ==
    CHOOSE i \in RowsOfPair(centreName, dateKey) : \A j \in RowsOfPair(centreName, dateKey) : i <= j

\* the centres and the date keys that occur in the items
CentresOfItems ==
    {CentreNameOf(dataItems[i], i - 1) : i \in {j \in 1..Len(dataItems) : dataItems[j].ymd # Null}}
DateKeysOfItems ==
    {FormatDisplay(dataItems[i].ymd) : i \in {j \in 1..Len(dataItems) : dataItems[j].ymd # Null}}
DateKeysOfCentre(centreName) ==
    {dateKey \in DateKeysOfItems : RowsOfPair(centreName, dateKey) # {}}

\* the ISO date behind a display key
IsoOfKey(dateKey) == <<dateKey[3], dateKey[2], dateKey[1]>>

RECURSIVE SumOver(_, _)
SumOver(S, f) ==
    IF S = {} THEN 0
    ELSE LET x == CHOOSE y \in S : TRUE IN f[x] + SumOver(S \ {x}, f)

\* C7: first write wins: the cell of a (location, date) pair holds the
\* detail fields of the first item of that pair, and folding a later item
\* of a pair that has a cell leaves the location's cells, metricSum and
\* metricCount unchanged.
C7_CellsAreFirstRows ==
    /\ DOMAIN fold.processedData = CentresOfItems
    /\ \A c \in DOMAIN fold.processedData :
        /\ DOMAIN fold.processedData[c].dateData = DateKeysOfCentre(c)
        /\ \A k \in DOMAIN fold.processedData[c].dateData :
            fold.processedData[c].dateData[k]
                = [totalSangat |-> dataItems[FirstRowOfPair(c, k)].row[COL_SANGAT]]

C7_LaterRowsIgnored ==
    \A c \in DOMAIN fold.processedData :
        /\ \A k \in DOMAIN fold.processedData[c].dateData :
            fold'.processedData[c].dateData[k] = fold.processedData[c].dateData[k]
        /\ (/\ Len(dataItems') = Len(dataItems) + 1
            /\ dataItems'[Len(dataItems')].ymd # Null
            /\ CentreNameOf(dataItems'[Len(dataItems')], Len(dataItems)) = c
            /\ FormatDisplay(dataItems'[Len(dataItems')].ymd) \in DOMAIN fold.processedData[c].dateData)
           => fold'.processedData[c] = fold.processedData[c]

C7_FirstWriteWins == [](C7_CellsAreFirstRows) /\ [][C7_LaterRowsIgnored]_vars

\* witness of C7: a second item of a pair, with other details, was folded
C7_Witness ==
    \E c \in DOMAIN fold.processedData : \E k \in DOMAIN fold.processedData[c].dateData :
        \E j \in RowsOfPair(c, k) :
            /\ j # FirstRowOfPair(c, k)
            /\ dataItems[j].row[COL_SANGAT] # dataItems[FirstRowOfPair(c, k)].row[COL_SANGAT]
            /\ IsNumericSangat(dataItems[j].row[COL_SANGAT])

\* C8: metricCount of a location is the number of its (location, date)
\* pairs whose cell was written by an item with a numeric attendance,
\* metricSum is the sum of those attendances, each pair counted once, and
\* 0 <= metricCount <= number of keys of the location's dateData.
NumericPairs(c) ==
    {k \in DateKeysOfCentre(c) :
        IsNumericSangat(dataItems[FirstRowOfPair(c, k)].row[COL_SANGAT])}

C8_MetricCount ==
    \A c \in DOMAIN fold.processedData :
        /\ fold.processedData[c].sangatCount = Cardinality(NumericPairs(c))
        /\ fold.processedData[c].totalSangatSum
            = SumOver(NumericPairs(c),
                      [k \in NumericPairs(c) |-> dataItems[FirstRowOfPair(c, k)].row[COL_SANGAT].n])
        /\ 0 <= fold.processedData[c].sangatCount
        /\ fold.processedData[c].sangatCount <= Cardinality(DOMAIN fold.processedData[c].dateData)

\* witness of C8: a location with two numeric pairs, a duplicate numeric
\* item among its rows
C8_Witness ==
    \E c \in DOMAIN fold.processedData :
        /\ fold.processedData[c].sangatCount = 2
        /\ fold.processedData[c].totalSangatSum = 1300
        /\ \E k \in DateKeysOfCentre(c) : Cardinality(RowsOfPair(c, k)) > 1

\* C9: a row emitted for a location of the canonical order has
\* isMissingData exactly when sortedDates is non-empty and some key of
\* sortedDates is absent from the location's dateData.
C9_MissingFlag ==
    pivotResult # NoResult
        => \A i \in 1..Len(allRelevantCenters) :
            LET row == pivotResult.templateData[i]
            IN /\ row.centre = allRelevantCenters[i]
               /\ row.isMissingData
                    <=> /\ pivotResult.sortedDates # <<>>
                        /\ \E k \in Range(pivotResult.sortedDates) :
                               k \notin DateKeysOfCentre(allRelevantCenters[i])

\* witness of C9: with two dates in the bucket, a canonical location that
\* has a cell for one date only is flagged, as is one without any row
C9_Witness ==
    /\ pivotResult # NoResult
    /\ Len(pivotResult.sortedDates) = 2
    /\ Len(allRelevantCenters) = 2
    /\ Cardinality(DOMAIN pivotResult.templateData[1].dateData) = 1
    /\ pivotResult.templateData[1].isMissingData
    /\ pivotResult.templateData[2].isMissingData

\* C10: sortedDates holds each display date key met in the bucket exactly
\* once, strictly ascending by the ISO date behind the key for every pair
\* of positions.
C10_SortedDates ==
    pivotResult # NoResult
        => /\ Range(pivotResult.sortedDates) = DateKeysOfItems
           /\ Len(pivotResult.sortedDates) = Cardinality(DateKeysOfItems)
           /\ \A i \in 1..Len(pivotResult.sortedDates) : \A j \in 1..Len(pivotResult.sortedDates) :
                i < j => LexLess(IsoOfKey(pivotResult.sortedDates[i]),
                                 IsoOfKey(pivotResult.sortedDates[j]))

\* witness of C10: 30-12-2023 precedes 02-01-2024 although the item of
\* 2024 came first and its key is the lesser one as a text
C10_Witness ==
    /\ pivotResult # NoResult
    /\ pivotResult.sortedDates = << <<30, 12, 2023>>, <<2, 1, 2024>> >>
    /\ dataItems[1].ymd = <<2024, 1, 2>>
    /\ LexLess(pivotResult.sortedDates[2], pivotResult.sortedDates[1])

\* C11: templateData has two consecutive segments: one row per location of
\* the canonical order, in that order, with or without data; then the
\* locations of the data that are not in the canonical order, ascending
\* alphabetically.  Every location with a folded row appears.
CentresOfRows(templateData, from, to) == {templateData[i].centre : i \in from..to}

C11_TwoSegments ==
    pivotResult # NoResult
        => LET td     == pivotResult.templateData
               n      == Len(allRelevantCenters)
               extras == CentresOfItems \ Range(allRelevantCenters)
           IN /\ Len(td) = n + Cardinality(extras)
              /\ \A i \in 1..n : td[i].centre = allRelevantCenters[i]
              /\ CentresOfRows(td, n + 1, Len(td)) = extras
              /\ \A i \in (n + 1)..Len(td) : \A j \in (n + 1)..Len(td) :
                    i < j => LocaleRank(td[i].centre) < LocaleRank(td[j].centre)
              /\ CentresOfItems \subseteq CentresOfRows(td, 1, Len(td))

\* witness of C11: both segments are there; ZED was folded before the
\* item without a centre name and comes after it
C11_Witness ==
    /\ pivotResult # NoResult
    /\ Len(allRelevantCenters) = 2
    /\ Len(pivotResult.templateData) = 4
    /\ CentreNameOf(dataItems[1], 0) = "ZED"
    /\ pivotResult.templateData[1].centre = "ALWAR"
    /\ pivotResult.templateData[3].centre = UnknownCentre(1)
    /\ pivotResult.templateData[4].centre = "ZED"

\* ------------------------------------------------------------------------
\* Specification of processSpecialSatsangList called on the special bucket.
\* The items are those of the first pass of getDataForDashboard: each
\* carries the ymd of its row.
\* ------------------------------------------------------------------------
MaxEvents == 3

SpecialDates == {<<2024, 3, 17>>, <<2024, 3, 3>>}
SpecialCentres == {Text("ALWAR", FALSE), Text("ZED", FALSE)}

SpecialItems ==
    {Item(Row(Text("Birthday", FALSE), YmdText(ymd), centre, AttNum(100)), ymd) :
        ymd \in SpecialDates, centre \in SpecialCentres}

ListInit ==
    /\ lenient \in BOOLEAN
    /\ dataItems \in UNION {[1..n -> SpecialItems] : n \in 0..MaxEvents}
    /\ allRelevantCenters = <<>> /\ fold = EmptyFold /\ pivotResult = NoResult
    /\ eventList = NoList
    /\ IdleParse /\ IdleDash /\ IdleExport

CallProcessSpecialSatsangList ==
    /\ eventList = NoList
    /\ eventList' = ReturnedList(processSpecialSatsangList(dataItems))
    /\ UNCHANGED <<parseVars, dashVars, pivotVars, exportVars>>

ListNext == CallProcessSpecialSatsangList

SpecList == ListInit /\ [][ListNext]_vars

\* the orders the items can be put in
Orderings(n) == {p \in [1..n -> 1..n] : \A i \in 1..n : \E k \in 1..n : p[k] = i}

C13_UniqueLocations ==
    pivotResult # NoResult
        => \A i \in 1..Len(pivotResult.templateData) : \A j \in 1..Len(pivotResult.templateData) :
                i # j => pivotResult.templateData[i].centre # pivotResult.templateData[j].centre

\* C14: in every PivotResult every key of every templateData entry's
\* dateData is an element of sortedDates.
C14_CellsHaveColumns ==
    pivotResult # NoResult
        => \A i \in 1..Len(pivotResult.templateData) :
                DOMAIN pivotResult.templateData[i].dateData \subseteq Range(pivotResult.sortedDates)

\* witness of C14: two locations with cells on different dates, one of them
\* not in the list handed in
C14_Witness ==
    /\ pivotResult # NoResult
    /\ Len(pivotResult.sortedDates) = 2
    /\ \E i \in 1..Len(pivotResult.templateData) : \E j \in 1..Len(pivotResult.templateData) :
            /\ i <= Len(allRelevantCenters) /\ j > Len(allRelevantCenters)
            /\ DOMAIN pivotResult.templateData[i].dateData = {pivotResult.sortedDates[1]}
            /\ DOMAIN pivotResult.templateData[j].dateData = {pivotResult.sortedDates[2]}

\* C15: processAndSortData on an empty bucket returns sortedDates = []; with
\* a canonical order it returns one row per canonical location, in order,
\* each with empty dateData, isMissingData = false and average "N/A";
\* without one it returns templateData = [].
C15_EmptyBucket ==
    (pivotResult # NoResult /\ dataItems = <<>>)
        => /\ pivotResult.sortedDates = <<>>
           /\ Len(pivotResult.templateData) = Len(allRelevantCenters)
           /\ \A i \in 1..Len(allRelevantCenters) :
                /\ pivotResult.templateData[i].centre = allRelevantCenters[i]
                /\ pivotResult.templateData[i].dateData = <<>>
                /\ ~pivotResult.templateData[i].isMissingData
                /\ pivotResult.templateData[i].averageSangat = NotApplicable
           /\ allRelevantCenters = <<>> => pivotResult.templateData = <<>>

\* witness of C15: the empty Sunday bucket with the fixed order of 34
\* locations
C15_Witness ==
    /\ pivotResult # NoResult /\ dataItems = <<>>
    /\ allRelevantCenters = customCentreOrder
    /\ Len(pivotResult.templateData) = 34
    /\ pivotResult.templateData[34].centre = "TATARPUR"
    /\ ~pivotResult.templateData[34].isMissingData

\* C20: a bucket row with a non-numeric or empty attendance that is the
\* first of its (location, date) pair still creates the cell with its detail
\* fields and changes neither metricSum nor metricCount; a location whose
\* cells all have a non-numeric attendance gets average "N/A".
C20_NonNumericFirstRow ==
    (Len(dataItems') = Len(dataItems) + 1)
        => LET item == dataItems'[Len(dataItems')]
               c    == CentreNameOf(item, Len(dataItems))
           IN (/\ item.ymd # Null
               /\ ~IsNumericSangat(item.row[COL_SANGAT])
               /\ RowsOfPair(c, FormatDisplay(item.ymd)) = {})
              => /\ c \in DOMAIN fold'.processedData
                 /\ FormatDisplay(item.ymd) \in DOMAIN fold'.processedData[c].dateData
                 /\ fold'.processedData[c].dateData[FormatDisplay(item.ymd)]
                        = [totalSangat |-> item.row[COL_SANGAT]]
                 /\ fold'.processedData[c].totalSangatSum
                        = (IF c \in DOMAIN fold.processedData
                           THEN fold.processedData[c].totalSangatSum ELSE 0)
                 /\ fold'.processedData[c].sangatCount
                        = (IF c \in DOMAIN fold.processedData
                           THEN fold.processedData[c].sangatCount ELSE 0)

C20_AllNonNumericIsNA ==
    pivotResult # NoResult
        => \A i \in 1..Len(pivotResult.templateData) :
                (/\ pivotResult.templateData[i].centre \in CentresOfItems
                 /\ NumericPairs(pivotResult.templateData[i].centre) = {})
                => pivotResult.templateData[i].averageSangat = NotApplicable

C20_NonNumericAttendance == [](C20_AllNonNumericIsNA) /\ [][C20_NonNumericFirstRow]_vars

\* witness of C20: ALWAR has 100 and "1,200" on the two dates, average 650.0,
\* not missing; ZED has one cell, written by a row with an empty attendance,
\* average N/A, missing
C20_Witness ==
    /\ pivotResult # NoResult
    /\ Len(pivotResult.sortedDates) = 2
    /\ \E i \in 1..Len(pivotResult.templateData) : \E j \in 1..Len(pivotResult.templateData) :
            /\ pivotResult.templateData[i].centre = "ALWAR"
            /\ Cardinality(DOMAIN pivotResult.templateData[i].dateData) = 2
            /\ pivotResult.templateData[i].averageSangat = [na |-> FALSE, tenths |-> 6500]
            /\ ~pivotResult.templateData[i].isMissingData
            /\ pivotResult.templateData[j].centre = "ZED"
            /\ DOMAIN pivotResult.templateData[j].dateData = {<<2, 1, 2024>>}
            /\ pivotResult.templateData[j].dateData[<<2, 1, 2024>>] = [totalSangat |-> AttEmpty]
            /\ pivotResult.templateData[j].averageSangat = NotApplicable
            /\ pivotResult.templateData[j].isMissingData

\* ---- what the claims on parseDateValue speak of ----
\* the formats in the order stated
FormatsInOrder == <<preferredFormat>> \o alternativeFormats

\* the calendar date a format reads from a trimmed text: its three numbers
\* in the format's field order, where the separators are the format's and
\* the numbers are a date of the calendar
ValidUnder(s, fmt) ==
    IF s.t = "str" /\ s.k = "fields" /\ s.sep = fmt.sep
       /\ IsCalendarDate(FieldsOf(s.f, fmt.order)[1], FieldsOf(s.f, fmt.order)[2],
                         FieldsOf(s.f, fmt.order)[3])
    THEN FieldsOf(s.f, fmt.order)
    ELSE Null

\* the date of the first format, in the order stated, that yields a valid date
FirstValid(s) ==
    IF \A i \in 1..Len(FormatsInOrder) : ValidUnder(s, FormatsInOrder[i]) = Null
    THEN Null
    ELSE ValidUnder(s, FormatsInOrder[CHOOSE i \in 1..Len(FormatsInOrder) :
                                        /\ ValidUnder(s, FormatsInOrder[i]) # Null
                                        /\ \A j \in 1..(i - 1) : ValidUnder(s, FormatsInOrder[j]) = Null])

\* C16: for a string value parseDateValue tries yyyy-MM-dd, dd-MM-yyyy,
\* dd/MM/yyyy, MM/dd/yyyy in that order on the trimmed string and its result
\* is the date of the first format that yields a valid date.
C16_FormatOrder ==
    (pdvOutcome # Pending /\ inputValue.t = "str" /\ inputValue.k = "fields")
        => pdvOutcome = Returned(FirstValid(Trim(inputValue)))

\* C17: parseDateValue returns null for the empty string, a white-space-only
\* string, a non-positive number, a value that is neither string, Date nor
\* number, and a string that is a valid calendar date in no accepted format
\* ("31/02/2024" is not rolled over).
C17_InvalidYieldsNull ==
    (/\ pdvOutcome # Pending
     /\ \/ inputValue.t = "str" /\ FirstValid(Trim(inputValue)) = Null
        \/ inputValue.t = "num" /\ inputValue.k = "finite" /\ inputValue.n <= 0
        \/ inputValue.t = "other")
        => pdvOutcome = Returned(Null)

\* C18: a positive number is a count of days after 1899-12-30; a resulting
\* year before 1900 or after 2100 is rejected (null), unless the number lies
\* in the millisecond range, when it is read as milliseconds since the Unix
\* epoch (and gives a date).
C18_SerialOrMillis ==
    (pdvOutcome # Pending /\ inputValue.t = "num")
        => IF inputValue.k = "ms"
           THEN pdvOutcome.kind = "return" /\ pdvOutcome.value # Null
           ELSE inputValue.n > 0
                => LET date == CivilOfDayNumber(DayNumber(1899, 12, 30) + inputValue.n)
                   IN pdvOutcome = Returned(IF date[1] < 1900 \/ date[1] > 2100 THEN Null ELSE date)

\* C19: availableMonths is exactly the set of the months of the data rows
\* whose date normalizes, whatever their location and day label; a row
\* whose date does not normalize is in no bucket.
C19_AvailableMonths ==
    (Finished /\ dashboardSheet.present /\ Len(dashboardSheet.rows) > 0)
        => /\ Range(result.value.availableMonths) = MonthsOfTable
           /\ \A row \in Range(RowsOf(buckets.sundayRows)) \cup Range(RowsOf(buckets.wednesdayRows))
                        \cup Range(RowsOf(buckets.specialRows)) : DateOfRow(row) # Null

\* C21: the average of a location is "N/A" exactly when its metricCount is
\* 0 (a location of the list without any row included), and is otherwise
\* metricSum / metricCount rounded to one decimal: the tenth nearest to the
\* quotient.
MetricSum(c) ==
    SumOver(NumericPairs(c),
            [k \in NumericPairs(c) |-> dataItems[FirstRowOfPair(c, k)].row[COL_SANGAT].n])

AbsDiff(a, b) == IF a >= b THEN a - b ELSE b - a

C21_Average ==
    pivotResult # NoResult
        => \A i \in 1..Len(pivotResult.templateData) :
            LET row == pivotResult.templateData[i]
                metricCount == Cardinality(NumericPairs(row.centre))
            IN /\ (row.averageSangat = NotApplicable) <=> (metricCount = 0)
               /\ metricCount > 0
                    => /\ ~row.averageSangat.na
                       /\ 2 * AbsDiff(10 * MetricSum(row.centre),
                                      row.averageSangat.tenths * metricCount) <= metricCount

\* witness of C21: ALWAR averages 1400 / 3 to 466.7 and a location of the
\* list without rows shows "N/A"
C21_Witness ==
    /\ pivotResult # NoResult
    /\ "ALWAR" \in DOMAIN fold.processedData
    /\ \E i, j \in 1..Len(pivotResult.templateData) :
        /\ pivotResult.templateData[i].centre = "ALWAR"
        /\ fold.processedData["ALWAR"].totalSangatSum = 1400
        /\ fold.processedData["ALWAR"].sangatCount = 3
        /\ pivotResult.templateData[i].averageSangat = [na |-> FALSE, tenths |-> 4667]
        /\ pivotResult.templateData[j].centre \notin DOMAIN fold.processedData
        /\ pivotResult.templateData[j].averageSangat = NotApplicable

C23_NoSortKey ==
    ~eventList.pending
        => \A k \in 1..Len(eventList.list) :
            /\ "ymdForSort" \notin DOMAIN eventList.list[k]
            /\ DOMAIN eventList.list[k] \subseteq {"date", "day", "centre", "totalSangat"}

\* ------------------------------------------------------------------------
\* Specification of getDataForDashboard from the end of its first pass on,
\* and of its callers.  The first pass is taken as it runs when
\* parseDateValue returns the dates it parsed, which is what parseDateValue
\* of src/Code.js does; the try block after the first pass is the same in
\* both files.
\* ------------------------------------------------------------------------
MaxTailRows == 2

TailRow(day, ymd, centre) ==
    Row(Text(day, FALSE), StrFields(FALSE, "-", ymd), Text(centre, FALSE), AttNum(100))

\* Sundays of March at two locations, and under a location that is not in
\* the list or is named after a property of Object.prototype; a Wednesday
\* and a special event of March; a Sunday of January; a row without a date
TailRows ==
    {TailRow("Sunday", <<2024, 3, 3>>, "ALWAR"),
     TailRow("Sunday", <<2024, 3, 10>>, "ALWAR"),
     TailRow("Sunday", <<2024, 3, 3>>, "ZED"),
     TailRow("Sunday", <<2024, 3, 3>>, "constructor"),
     TailRow("Wednesday", <<2024, 3, 6>>, "ALWAR"),
     TailRow("Birthday", <<2024, 3, 10>>, "ALWAR"),
     TailRow("Sunday", <<2024, 1, 7>>, "ALWAR"),
     Row(Text("Sunday", FALSE), StrGarbage, Text("ALWAR", FALSE), AttNum(100))}

TailTables == {Sheet(rows) : rows \in UNION {[1..n -> TailRows] : n \in 1..MaxTailRows}}

TailRequested == {NoMonth, <<2024, 1>>}
TailCurrent == {<<2024, 3>>, <<2024, 4>>}
TailConfigs == {NoSheet, Sheet(<<Text("ALWAR", FALSE), Text("BEHROR", TRUE)>>)}

\* allValidDataItems after the loop of the first pass
RECURSIVE FirstPassItems(_, _)
FirstPassItems(rows, len) ==
    IF rows = <<>> THEN <<>>
    ELSE LET parsedYMD == ParsedDateObj(rows[Len(rows)][COL_DATE], len)
             before    == FirstPassItems(SubSeq(rows, 1, Len(rows) - 1), len)
         IN IF parsedYMD # Null THEN Append(before, Item(rows[Len(rows)], parsedYMD)) ELSE before

\* availableMonthsSet after the loop of the first pass
RECURSIVE FirstPassMonths(_)
FirstPassMonths(items) ==
    IF items = <<>> THEN <<>>
    ELSE SetAdd(FirstPassMonths(SubSeq(items, 1, Len(items) - 1)), MonthOf(items[Len(items)].ymd))

TailInit ==
    /\ lenient \in BOOLEAN
    /\ dashboardSheet \in TailTables
    /\ configColumn \in TailConfigs
    /\ requestedMonth \in TailRequested
    /\ currentMonth \in TailCurrent
    /\ pc = "firstPass" /\ rowIndex = Len(dashboardSheet.rows) + 1
    /\ allValidDataItems = FirstPassItems(dashboardSheet.rows, lenient)
    /\ availableMonthsSet = FirstPassMonths(allValidDataItems)
    /\ actualSelectedMonth = NoMonth /\ caught = ""
    /\ buckets = EmptyBuckets /\ result = Pending
    /\ previous = Pending /\ missingEntries = Pending
    /\ IdleParse /\ IdlePivot /\ IdleList /\ IdleExport

\* the call has returned; a second call on the same tables, in another
\* month and for another requested month, reaches the end of its first pass
CallAgain ==
    /\ pc = "done"
    /\ previous = Pending /\ missingEntries = Pending
    /\ previous' = result
    /\ requestedMonth' \in TailRequested
    /\ currentMonth' \in TailCurrent
    /\ pc' = "firstPass" /\ rowIndex' = Len(dashboardSheet.rows) + 1
    /\ allValidDataItems' = FirstPassItems(dashboardSheet.rows, lenient)
    /\ availableMonthsSet' = FirstPassMonths(allValidDataItems')
    /\ actualSelectedMonth' = NoMonth /\ caught' = ""
    /\ buckets' = EmptyBuckets /\ result' = Pending
    /\ UNCHANGED <<lenient, dashboardSheet, configColumn, missingEntries,
                   parseVars, pivotVars, listVars, exportVars>>

\* the call was made by findMissingDateEntries (which always names a
\* month), and findMissingDateEntries goes on with its result
FindMissingDateEntries ==
    /\ pc = "done"
    /\ previous = Pending /\ missingEntries = Pending
    /\ requestedMonth # NoMonth
    /\ missingEntries' = findMissingDateEntries(result.value, configColumn)
    /\ UNCHANGED <<lenient, dashInputs, pc, rowIndex, availableMonthsSet, allValidDataItems,
                   actualSelectedMonth, caught, buckets, result, previous,
                   parseVars, pivotVars, listVars, exportVars>>

TailNext == SelectAndProcess \/ CatchBlock \/ CallAgain \/ FindMissingDateEntries

SpecTail == TailInit /\ [][TailNext]_vars


\* ---- what the claims on the result of getDataForDashboard speak of ----
BothReturned == pc = "done" /\ previous # Pending

\* C22: two invocations of getDataForDashboard on the same two tables that
\* resolve to the same selected month return the same sunday, wednesday,
\* special, availableMonths and selectedMonth, and no step of an invocation
\* changes the rows of the data sheet or the configured list of locations.
C22_SameOutputs ==
    (BothReturned /\ previous.value.selectedMonth = result.value.selectedMonth)
        => /\ previous.value.sunday = result.value.sunday
           /\ previous.value.wednesday = result.value.wednesday
           /\ previous.value.special = result.value.special
           /\ previous.value.availableMonths = result.value.availableMonths

StrictlyAscending(months) ==
    \A i, j \in 1..Len(months) : i < j => LexLess(months[i], months[j])

C25_MonthsAscending ==
    result # Pending
        => /\ StrictlyAscending(result.value.availableMonths)
           /\ result.value.error \in {NoError, "Failed to load data: " \o caught}
                => Range(result.value.availableMonths) = Range(availableMonthsSet)

\* witness of C25: on a table whose first pass met March before January,
\* one invocation succeeded and the next was caught failing; both list
\* January before March
C25_Witness ==
    /\ BothReturned
    /\ availableMonthsSet = <<<<2024, 3>>, <<2024, 1>>>>
    /\ previous.value.error = NoError
    /\ previous.value.availableMonths = <<<<2024, 1>>, <<2024, 3>>>>
    /\ result.value.error = "Failed to load data: " \o UndefinedDateData
    /\ result.value.availableMonths = <<<<2024, 1>>, <<2024, 3>>>>

\* C26: on every successful result (error = null) selectedMonth is one of
\* availableMonths, and every output is of that month: the ISO date behind
\* every key of sunday.sortedDates and of wednesday.sortedDates, and the ISO
\* date of every special event, starts with selectedMonth.
C26_OutputsOfSelectedMonth ==
    (result # Pending /\ result.value.error = NoError)
        => LET value == result.value
           IN /\ value.selectedMonth \in Range(value.availableMonths)
              /\ \A k \in 1..Len(value.sunday.sortedDates) :
                    StartsWith(IsoOfKey(value.sunday.sortedDates[k]), value.selectedMonth)
              /\ \A k \in 1..Len(value.wednesday.sortedDates) :
                    StartsWith(IsoOfKey(value.wednesday.sortedDates[k]), value.selectedMonth)
              /\ \A k \in 1..Len(value.special) :
                    StartsWith(value.special[k].ymdForSort, value.selectedMonth)

\* witness of C26: a table with a Sunday of January and a Sunday of March;
\* March is selected and the Sunday pivot has the date of March only
C26_Witness ==
    /\ result # Pending /\ result.value.error = NoError
    /\ Len(allValidDataItems) = 2
    /\ Bucket(allValidDataItems[1]) = "sunday" /\ Bucket(allValidDataItems[2]) = "sunday"
    /\ allValidDataItems[1].ymd = <<2024, 1, 7>>
    /\ allValidDataItems[2].ymd = <<2024, 3, 3>>
    /\ result.value.selectedMonth = <<2024, 3>>
    /\ result.value.availableMonths = <<<<2024, 1>>, <<2024, 3>>>>
    /\ result.value.sunday.sortedDates = <<<<3, 3, 2024>>>>

SundayEntriesOf(entries) == SelectSeq(entries, LAMBDA entry : entry.day = "Sunday")

ExportInit ==
    /\ lenient \in BOOLEAN
    /\ IdleExport
    /\ IdleParse /\ IdleDash /\ IdlePivot /\ IdleList

OtherVars == <<lenient, parseVars, dashVars, pivotVars, listVars>>

\* getDataForDashboard(selectedMonth) and, without an error in its result,
\* SpreadsheetApp.create(newSheetName)
ExportGetData(e) ==
    /\ exports[e].pc = "start"
    /\ \/ \E error \in DataErrors :
            exports' = [exports EXCEPT ![e].pc = "done",
                                       ![e].outcome = Thrown(FailurePrefix(e) \o error)]
       \/ exports' = [exports EXCEPT ![e].pc = "created", ![e].spreadsheet = TRUE]
    /\ UNCHANGED <<fileToDeleteId, driveTrashed, projectTriggers, cleanup, OtherVars>>

\* the sheets are filled, the spreadsheet is shared and fetched as xlsx with
\* response code 200, and the Excel file is created and shared
ExportConvert(e) ==
    /\ exports[e].pc = "created"
    /\ exports' = [exports EXCEPT ![e].pc = "converted"]
    /\ UNCHANGED <<fileToDeleteId, driveTrashed, projectTriggers, cleanup, OtherVars>>

\* const prop = getProperty("fileToDeleteId") || ""
ExportReadProperty(e) ==
    /\ exports[e].pc = "converted"
    /\ exports' = [exports EXCEPT ![e].pc = "read", ![e].prop = fileToDeleteId]
    /\ UNCHANGED <<fileToDeleteId, driveTrashed, projectTriggers, cleanup, OtherVars>>

\* setProperty("fileToDeleteId", newProp)
ExportWriteProperty(e) ==
    /\ exports[e].pc = "read"
    /\ fileToDeleteId' = exports[e].prop \o <<SpreadsheetId(e), ExcelFileId(e)>>
    /\ exports' = [exports EXCEPT ![e].pc = "written", ![e].wroteProperty = TRUE]
    /\ UNCHANGED <<driveTrashed, projectTriggers, cleanup, OtherVars>>

\* ScriptApp.getProjectTriggers().forEach(...)
ExportLookUpTriggers(e) ==
    /\ exports[e].pc = "written"
    /\ exports' = [exports EXCEPT ![e].pc = "lookedUp",
                                  ![e].existingTrigger = projectTriggers > 0]
    /\ UNCHANGED <<fileToDeleteId, driveTrashed, projectTriggers, cleanup, OtherVars>>

\* the trigger is created unless one was found; return downloadUrl
ExportCreateTrigger(e) ==
    /\ exports[e].pc = "lookedUp"
    /\ IF exports[e].existingTrigger
       THEN /\ exports' = [exports EXCEPT ![e].pc = "done",
                                          ![e].outcome = Returned(DownloadUrl(e))]
            /\ UNCHANGED projectTriggers
       ELSE /\ projectTriggers' = projectTriggers + 1
            /\ exports' = [exports EXCEPT ![e].pc = "done", ![e].createdTrigger = TRUE,
                                          ![e].outcome = Returned(DownloadUrl(e))]
    /\ UNCHANGED <<fileToDeleteId, driveTrashed, cleanup, OtherVars>>

\* ExportFails with catch blocks that leave the spreadsheet where it is
ExportFails_NoTrash(e) ==
    /\ exports[e].pc \in {"start", "created", "converted", "read", "written", "lookedUp"}
    /\ \E message \in IF exports[e].pc = "created" THEN {ServiceError, HttpError}
                      ELSE {ServiceError} :
        exports' = [exports EXCEPT ![e].pc = "done",
                                   ![e].outcome = Thrown(FailurePrefix(e) \o message)]
    /\ UNCHANGED <<fileToDeleteId, driveTrashed, projectTriggers, cleanup, OtherVars>>

\* the call the export is about to make throws (or the response code is
\* not 200): the catch blocks call setTrashed(true) on the spreadsheet if
\* there is one, and the outer one throws the error the caller gets
ExportFails(e) ==
    /\ exports[e].pc \in {"start", "created", "converted", "read", "written", "lookedUp"}
    /\ \E message \in IF exports[e].pc = "created" THEN {ServiceError, HttpError}
                      ELSE {ServiceError} :
        exports' = [exports EXCEPT ![e].pc = "done",
                                   ![e].outcome = Thrown(FailurePrefix(e) \o message)]
    /\ driveTrashed' = IF exports[e].spreadsheet
                       THEN driveTrashed \cup {SpreadsheetId(e)}
                       ELSE driveTrashed
    /\ UNCHANGED <<fileToDeleteId, projectTriggers, cleanup, OtherVars>>

\* deleteTemporaryFile, run by a trigger: getProperty("fileToDeleteId")
CleanupRead ==
    /\ cleanup.pc = "idle"
    /\ projectTriggers > 0
    /\ cleanup' = IF fileToDeleteId = <<>>
                  THEN [cleanup EXCEPT !.pc = "done"]
                  ELSE [cleanup EXCEPT !.pc = "trashing", !.fileIds = fileToDeleteId]
    /\ UNCHANGED <<fileToDeleteId, driveTrashed, projectTriggers, exports, OtherVars>>

\* fileIds.forEach: setTrashed(true) on every file
CleanupTrash ==
    /\ cleanup.pc = "trashing"
    /\ driveTrashed' = driveTrashed \cup Range(cleanup.fileIds)
    /\ cleanup' = [cleanup EXCEPT !.pc = "deleting", !.attempted = Range(cleanup.fileIds)]
    /\ UNCHANGED <<fileToDeleteId, projectTriggers, exports, OtherVars>>

\* deleteProperty("fileToDeleteId")
CleanupDelete ==
    /\ cleanup.pc = "deleting"
    /\ fileToDeleteId' = <<>>
    /\ cleanup' = [cleanup EXCEPT !.pc = "done"]
    /\ UNCHANGED <<driveTrashed, projectTriggers, exports, OtherVars>>

ExportNext ==
    \/ \E e \in Exports :
        \/ ExportGetData(e) \/ ExportConvert(e) \/ ExportReadProperty(e)
        \/ ExportWriteProperty(e) \/ ExportLookUpTriggers(e) \/ ExportCreateTrigger(e)
        \/ ExportFails(e)
    \/ CleanupRead \/ CleanupTrash \/ CleanupDelete

SpecExport == ExportInit /\ [][ExportNext]_vars

\* C29: no id is lost from the cleanup list: the ids a successful export
\* recorded in fileToDeleteId stay in that property until a run of
\* deleteTemporaryFile has tried to trash them, however two exports, or an
\* export and deleteTemporaryFile, interleave.
C29_NoIdLost ==
    \A e \in Exports :
        exports[e].outcome.kind = "return"
            => {SpreadsheetId(e), ExcelFileId(e)} \subseteq Range(fileToDeleteId) \cup cleanup.attempted

\* C30: an export that fails after its temporary spreadsheet was created
\* has trashed that spreadsheet, raises "Export failed: ...", has recorded
\* nothing in fileToDeleteId and has created no cleanup trigger; an export
\* that fails before the spreadsheet is created trashes nothing.
ExportFailureMessages ==
    {"Export failed: " \o message : message \in DataErrors \cup {ServiceError, HttpError}}

====
